---- MODULE Spec2Model ----
(***************************************************************************)
(* Model of the PostgreSQL MCP server of src/index.ts: the three tool      *)
(* handlers on top of executeDbQuery and the pg pool, the per-connection   *)
(* query queue of the database client, the statement timeout, the          *)
(* transport error / reconnect path and the shutdown sequence.             *)
(*                                                                         *)
(* Granularity: Node runs one callback at a time, so one action is one     *)
(* event-loop callback together with all the promise continuations         *)
(* (microtasks) it makes runnable; a handler is cut at the awaits that     *)
(* wait for I/O or a timer (pool.connect, client.query, setTimeout).       *)
(***************************************************************************)
EXTENDS Integers, Sequences, FiniteSets, TLC

\* ---------------------------------------------------------------- bounds
NumRequests == 2        \* requests the peer sends in one run
NumConns == 1           \* size of the pool in the model (max: 20 in the code)
LifeRequests == 1       \* requests sent in the lifecycle specification
TimedRequests == 1      \* requests sent in the timed specification
MaxShutdownCalls == 2   \* calls of shutdown() in one run
MaxTimers == 2          \* reconnect timers pending at the same time
MaxPoolErrors == 1      \* 'error' events of the pool in one run
MaxHbReconnects == 2    \* reattachments counted for one silence ("this many or more")

\* ------------------------------------------------------ program constants
API_TIMEOUT_MS == 30000
HEARTBEAT_INTERVAL_MS == 5000
MAX_RECONNECT_ATTEMPTS == 5
RECONNECT_DELAY_MS == 1000
PoolConnectTimeoutMs == 5000       \* connectionTimeoutMillis
TickMs == RECONNECT_DELAY_MS       \* the clock advances by the smallest delay of the program

Requests == 1..NumRequests
Conns == 1..NumConns

VARIABLES
  \* process and session (connectionState, shutdown, transport.onerror)
  phase,              \* "verifying" | "attaching" | "running" | "exited"
  exitCode,           \* -1 while the process lives
  isConnected, reconnectAttempts, isShuttingDown,
  sdpc,               \* position of the one running shutdown(): "idle" | "draining" | "closing"
                      \* ("rejected": it threw)
  shutdownCalls, poolEndCalls, transportCloseCalls, exitCalls,
  reconnectTimers,    \* pending setTimeout callbacks of transport.onerror
  \* pool
  leased,             \* connection -> request that holds it, or 0
  waiters,            \* FIFO of requests whose pool.connect() is pending
  poolEnding,
  \* database
  connq,              \* connection -> FIFO of queries sent on it, head is running
  txn,                \* connection -> "none" | "ro" | "aborted"
  committed,          \* committed rows added since start
  \* requests
  pc, op, arg, conn, resp, connectCalls, releases, issued, timerArmed,
  content,            \* request -> content blocks of its response
  \* clock of the timed specification
  elapsed, timerLeft, waitLeft,
  \* configuration and startServer()
  envUrl,             \* process.env.DATABASE_URL: "unset", "" or a connection string
  argUrl,             \* process.argv.slice(2)
  databaseUrl,        \* the resolved connection string, "" before it is resolved
  poolConstructed,    \* new pg.Pool(...) has run
  verified,           \* startServer() acquired and released its test connection
  attached,           \* startServer() has called server.connect(transport)
  startupFailed,      \* "none" | "verify" | "attach": the step of startServer() that threw
  \* heartbeat (connectionState.lastHeartbeat, transport.onmessage, heartbeatCheck)
  hbGap,              \* Date.now() - lastHeartbeat, in ms
  sinceCheck,         \* ms since heartbeatCheck last ran
  lastMethod,         \* method of the last message seen by transport.onmessage
  hbReconnects,       \* reattachments heartbeatCheck scheduled since lastHeartbeat was set
  \* history of the recovery path and of the pool's 'error' event
  failedSince,        \* reattachments that failed since the last one that succeeded
  lastCaller,         \* who called shutdown() last: "none" | "process" | "recovery"
  poolErrors,         \* 'error' events the pool has emitted
  sdFailed            \* the steps of shutdown() that threw: "pool.end", "transport.close"

sessionVars == <<phase, exitCode, isConnected, reconnectAttempts, isShuttingDown,
                 sdpc, shutdownCalls, poolEndCalls, transportCloseCalls, exitCalls,
                 reconnectTimers>>
poolVars == <<leased, waiters, poolEnding>>
dbVars == <<connq, txn, committed>>
reqVars == <<pc, op, arg, conn, resp, content, connectCalls, releases, issued, timerArmed>>
clockVars == <<elapsed, timerLeft, waitLeft>>
bootVars == <<envUrl, argUrl, databaseUrl, poolConstructed, verified, attached, startupFailed>>
hbVars == <<hbGap, sinceCheck, lastMethod, hbReconnects>>
histVars == <<failedSince, lastCaller, poolErrors, sdFailed>>
vars == <<sessionVars, poolVars, dbVars, reqVars, clockVars, bootVars, hbVars, histVars>>

\* ------------------------------------------------------------ the registry
\* server.tool(name, schema, handler): the three registered operations.
Registry == {"postgres_query", "postgres_list_tables", "postgres_describe_table"}
OpNames == Registry \cup {"postgres_drop_table"}

\* Variant: the dispatcher runs a handler for any name.
RegisteredAny(o) == TRUE

\* The dispatcher resolves a tools/call by the name the tool was registered under.
Registered(o) == o \in Registry

\* A parameter value as the peer sends it: its JSON type and its text.
SqlTexts == {"SELECT", "INSERT", "COMMIT;INSERT"}
TableNames == {"employees"}
ArgsOf(o) ==
  CASE o = "postgres_query" ->
         {[t |-> "string", v |-> s] : s \in SqlTexts} \cup {[t |-> "absent", v |-> ""]}
    [] o = "postgres_describe_table" ->
         {[t |-> "string", v |-> s] : s \in TableNames} \cup {[t |-> "number", v |-> "42"]}
    [] OTHER -> {[t |-> "absent", v |-> ""]}
NoArg == [t |-> "absent", v |-> ""]

\* Variant: a schema that accepts any value (z.any()).
ZAny(a) == TRUE

\* z.string(): the value is present and a string.
ZString(a) == a.t = "string"

\* The zod schema of each registration, applied by the dispatcher before the handler.
ValidParams(o, a) ==
  CASE o = "postgres_query" -> ZString(a)
    [] o = "postgres_describe_table" -> ZString(a)
    [] OTHER -> TRUE

\* ------------------------------------------------------------ the database
\* client.query(text) without parameters uses the simple query protocol: the text
\* may hold several commands separated by ';', run in order until one fails.
Commands(text) ==
  CASE text = "SELECT" -> <<"SELECT">>
    [] text = "INSERT" -> <<"INSERT">>
    [] text = "COMMIT;INSERT" -> <<"COMMIT", "INSERT">>
    [] text = "BEGIN TRANSACTION READ ONLY" -> <<"BEGIN_RO">>
    [] text = "ROLLBACK" -> <<"ROLLBACK">>
    [] OTHER -> <<"SELECT">>

BeginText == "BEGIN TRANSACTION READ ONLY"
RollbackText == "ROLLBACK"
ListTablesText == "SELECT table_name FROM information_schema.tables"
DescribeText == "SELECT column_name FROM information_schema.columns"

\* One command on a session whose transaction state is t and with d committed rows:
\* the new transaction state, the new committed rows, and whether it succeeded.
ExecCmd(cmd, t, d) ==
  CASE cmd = "BEGIN_RO" ->
         IF t = "aborted" THEN [t |-> t, d |-> d, ok |-> FALSE]
         ELSE [t |-> "ro", d |-> d, ok |-> TRUE]
    [] cmd = "SELECT" ->
         IF t = "aborted" THEN [t |-> t, d |-> d, ok |-> FALSE]
         ELSE [t |-> t, d |-> d, ok |-> TRUE]
    [] cmd = "INSERT" ->
         IF t = "none" THEN [t |-> t, d |-> d + 1, ok |-> TRUE]
         ELSE [t |-> "aborted", d |-> d, ok |-> FALSE]
    [] cmd = "COMMIT" -> [t |-> "none", d |-> d, ok |-> TRUE]
    [] OTHER -> [t |-> "none", d |-> d, ok |-> TRUE]      \* ROLLBACK

RECURSIVE ExecCmds(_, _, _)
ExecCmds(cmds, t, d) ==
  IF cmds = <<>> THEN [t |-> t, d |-> d, ok |-> TRUE]
  ELSE LET r == ExecCmd(Head(cmds), t, d)
       IN IF r.ok THEN ExecCmds(Tail(cmds), r.t, r.d) ELSE r

ExecQuery(text, t, d) == ExecCmds(Commands(text), t, d)

\* ------------------------------------------------------ response content
\* The tables of the public schema (init/01-schema.sql) and their numbers of columns.
ColumnCount(t) ==
  CASE t = "departments" -> 3
    [] t = "employees" -> 9
    [] t = "projects" -> 6
    [] t = "employee_projects" -> 4
    [] OTHER -> 0

\* The rows the information_schema.columns query of postgres_describe_table
\* returns for table name t: one record per column, in ordinal position.
ColumnRows(t) == [i \in 1..ColumnCount(t) |-> [column_name |-> <<t, i>>]]

\* The rows of the information_schema.tables query of postgres_list_tables: one
\* record per table of the public schema.
TableRows ==
  <<[table_name |-> "departments"], [table_name |-> "employees"],
    [table_name |-> "projects"], [table_name |-> "employee_projects"]>>

\* The rows a statement of operation o with parameter a returns.
ResultRows(o, a) ==
  CASE o = "postgres_describe_table" -> ColumnRows(a.v)
    [] o = "postgres_list_tables" -> TableRows
    [] o = "postgres_query" /\ a.v = "SELECT" -> <<[n |-> 1]>>
    [] OTHER -> <<>>

\* { type: "text", text }
TextBlock(text) == [type |-> "text", text |-> text]

\* JSON.stringify(result.rows, null, 2)
Json(rows) == <<"json", rows>>

\* `Table '${tableName}' not found or has no columns.`
NotFoundText(t) == <<"Table '", t, "' not found or has no columns.">>

\* Variant: postgres_describe_table without its rows.length === 0 branch.
DescribeContentRowsOnly(t, rows) == <<TextBlock(Json(rows))>>

\* postgres_describe_table: the content it returns for the rows of table t.
DescribeContent(t, rows) ==
  IF Len(rows) = 0 THEN <<TextBlock(NotFoundText(t))>>
  ELSE <<TextBlock(Json(rows))>>

\* Variant: postgres_list_tables returning one content block per table.
ListContentPerTable(rows) == [i \in 1..Len(rows) |-> TextBlock(Json(rows[i].table_name))]

\* result.rows.map((row) => row.table_name)
TableList(rows) == [i \in 1..Len(rows) |-> rows[i].table_name]

\* postgres_list_tables: the content it returns for the rows of its query.
ListContent(rows) == <<TextBlock(Json(TableList(rows)))>>

\* postgres_query: the content it returns for the rows of the caller's statement.
QueryContent(rows) == <<TextBlock(Json(rows))>>

\* The content blocks of the response to operation o with parameter a that ended
\* with `outcome`: the handler's return value, the error text of a handler that
\* threw, or nothing when the dispatcher rejected the request.
Content(o, a, outcome) ==
  CASE outcome \in {"UnknownOperation", "Validation"} -> <<>>
    [] outcome # "ok" -> <<TextBlock(<<"error", outcome>>)>>
    [] o = "postgres_describe_table" -> DescribeContent(a.v, ResultRows(o, a))
    [] o = "postgres_list_tables" -> ListContent(ResultRows(o, a))
    [] OTHER -> QueryContent(ResultRows(o, a))

\* ------------------------------------------------------------------- Init
\* Everything but the configuration: the state of the objects the module body of
\* index.ts constructs.  `sent` is the set of requests the peer will send.
Constructed(sent) ==
  /\ exitCode = -1
  /\ isConnected = FALSE /\ reconnectAttempts = 0 /\ isShuttingDown = FALSE
  /\ sdpc = "idle"
  /\ shutdownCalls = 0 /\ poolEndCalls = 0 /\ transportCloseCalls = 0 /\ exitCalls = 0
  /\ reconnectTimers = 0
  /\ leased = [c \in Conns |-> 0] /\ waiters = <<>> /\ poolEnding = FALSE
  /\ connq = [c \in Conns |-> <<>>] /\ txn = [c \in Conns |-> "none"] /\ committed = 0
  /\ pc = [r \in Requests |-> IF r \in sent THEN "new" ELSE "unsent"]
  /\ op = [r \in Requests |-> ""] /\ arg = [r \in Requests |-> NoArg]
  /\ conn = [r \in Requests |-> 0] /\ resp = [r \in Requests |-> "none"]
  /\ content = [r \in Requests |-> <<>>]
  /\ connectCalls = [r \in Requests |-> 0] /\ releases = [r \in Requests |-> 0]
  /\ issued = [r \in Requests |-> <<>>] /\ timerArmed = [r \in Requests |-> FALSE]
  /\ elapsed = [r \in Requests |-> 0] /\ timerLeft = [r \in Requests |-> 0]
  /\ waitLeft = [r \in Requests |-> 0]
  /\ verified = FALSE /\ attached = FALSE /\ startupFailed = "none"
  /\ hbGap = 0 /\ sinceCheck = 0 /\ lastMethod = "" /\ hbReconnects = 0
  /\ failedSince = 0 /\ lastCaller = "none" /\ poolErrors = 0 /\ sdFailed = {}

\* The state when the module body of index.ts has run with DATABASE_URL set: pool
\* and server are constructed, the handlers are registered, startServer() waits
\* for its first pool.connect().
InitWith(sent) ==
  /\ phase = "verifying"
  /\ envUrl = "postgres://env" /\ argUrl = <<>>
  /\ databaseUrl = "postgres://env" /\ poolConstructed = TRUE
  /\ Constructed(sent)

Init == InitWith(Requests)

Alive == phase # "exited"
InFlight(r) == pc[r] \in {"acquiring", "begin", "stmt"}

\* process.exit(code)
ProcessExit(code) ==
  /\ phase' = "exited" /\ exitCode' = code /\ exitCalls' = exitCalls + 1

\* ---------------------------------------------------------------- startup
\* Variant: a test for DATABASE_URL being defined (!== undefined).
EnvDefined(e) == e # "unset"

\* if (process.env.DATABASE_URL): the variable is set to a non-empty string.
EnvTruthy(e) == e \notin {"unset", ""}

\* The module body of index.ts, which runs in one go: the connection string is
\* resolved from DATABASE_URL or else from the first argument, with neither the
\* process exits; the pool is constructed, the handlers are registered and
\* startServer() runs up to its first await.
LoadConfig ==
  /\ phase = "loading"
  /\ IF EnvTruthy(envUrl)
     THEN /\ databaseUrl' = envUrl /\ poolConstructed' = TRUE /\ phase' = "verifying"
          /\ UNCHANGED <<exitCode, exitCalls>>
     ELSE IF Len(argUrl) = 0
     THEN /\ ProcessExit(1)
          /\ UNCHANGED <<databaseUrl, poolConstructed>>
     ELSE /\ databaseUrl' = argUrl[1] /\ poolConstructed' = TRUE /\ phase' = "verifying"
          /\ UNCHANGED <<exitCode, exitCalls>>
  /\ UNCHANGED <<isConnected, reconnectAttempts, isShuttingDown, sdpc, shutdownCalls,
                 poolEndCalls, transportCloseCalls, reconnectTimers>>
  /\ UNCHANGED <<poolVars, dbVars, reqVars, clockVars>>
  /\ UNCHANGED <<envUrl, argUrl, verified, attached, startupFailed, hbVars, histVars>>

\* Variant: startServer() without the try/catch around its connection test.
AfterVerifyIgnoringFailure(ok) == "attaching"

\* startServer(): the connection test either falls through to server.connect or
\* ends in catch { process.exit(1) }.
AfterVerify(ok) == IF ok THEN "attaching" ELSE "exited"

\* startServer(): const client = await pool.connect(); client.release(); and, when
\* that passed, the call of server.connect(transport).
StartupVerify(ok) ==
  /\ phase = "verifying"
  /\ verified' = ok
  /\ IF AfterVerify(ok) = "attaching"
     THEN /\ phase' = "attaching" /\ attached' = TRUE
          /\ UNCHANGED <<exitCode, exitCalls, startupFailed>>
     ELSE /\ ProcessExit(1) /\ startupFailed' = "verify"
          /\ UNCHANGED attached
  /\ UNCHANGED <<isConnected, reconnectAttempts, isShuttingDown, sdpc, shutdownCalls,
                 poolEndCalls, transportCloseCalls, reconnectTimers>>
  /\ UNCHANGED <<poolVars, dbVars, reqVars, clockVars>>
  /\ UNCHANGED <<envUrl, argUrl, databaseUrl, poolConstructed, hbVars, histVars>>

\* startServer(): await server.connect(transport) settles.
StartupAttach(ok) ==
  /\ phase = "attaching"
  /\ IF ok THEN phase' = "running" /\ UNCHANGED <<exitCode, exitCalls, startupFailed>>
     ELSE ProcessExit(1) /\ startupFailed' = "attach"
  /\ UNCHANGED <<isConnected, reconnectAttempts, isShuttingDown, sdpc, shutdownCalls,
                 poolEndCalls, transportCloseCalls, reconnectTimers>>
  /\ UNCHANGED <<poolVars, dbVars, reqVars, clockVars>>
  /\ UNCHANGED <<envUrl, argUrl, databaseUrl, poolConstructed, verified, attached,
                 hbVars, histVars>>

\* --------------------------------------------------------------- shutdown
\* Variant: shutdown() without its re-entrance guard.
GuardOff == FALSE

\* shutdown(): if (connectionState.isShuttingDown) return;
AlreadyShuttingDown == isShuttingDown

\* A call of shutdown(), up to its first await (pool.end()).
ShutdownCall ==
  /\ shutdownCalls < MaxShutdownCalls
  /\ shutdownCalls' = shutdownCalls + 1
  /\ IF AlreadyShuttingDown
     THEN UNCHANGED <<isShuttingDown, sdpc, poolEnding, poolEndCalls>>
     ELSE /\ isShuttingDown' = TRUE
          /\ poolEnding' = TRUE
          /\ poolEndCalls' = poolEndCalls + 1
          /\ sdpc' = "draining"

\* --------------------------------------------------------------- requests
Query(r, kind, text) == [owner |-> r, kind |-> kind, text |-> text]

\* The statement the handler of operation o sends for parameter a.
StatementText(o, a) ==
  CASE o = "postgres_query" -> a.v
    [] o = "postgres_list_tables" -> ListTablesText
    [] OTHER -> DescribeText

\* Only postgres_query wraps its statement in BEGIN ... ROLLBACK.
UsesTransaction(o) == o = "postgres_query"

\* Variant: release() at the end of the try block instead of in finally.
ReleaseCountOnSuccess(outcome) == IF outcome = "ok" THEN 1 ELSE 0

\* executeDbQuery: finally { client.release() } -- the number of release() calls
\* made when queryFn ends with `outcome`.
ReleaseCount(outcome) == 1

\* postgres_query: finally { client.query("ROLLBACK") } -- whether the ROLLBACK is
\* sent when the statement ends with `outcome`.
RollbackSent(outcome) == TRUE

\* The response the SDK sends for request r; the request is over.
Respond(r, outcome) ==
  /\ resp' = [resp EXCEPT ![r] = outcome]
  /\ content' = [content EXCEPT ![r] = Content(op[r], arg[r], outcome)]
  /\ pc' = [pc EXCEPT ![r] = "done"]
  /\ timerArmed' = [timerArmed EXCEPT ![r] = FALSE]
  /\ timerLeft' = [timerLeft EXCEPT ![r] = 0]
  /\ waitLeft' = [waitLeft EXCEPT ![r] = 0]

\* The first query the handler of request w sends once pool.connect() has resolved:
\* BEGIN for postgres_query, the statement itself for the other two.
FirstKind(w) == IF UsesTransaction(op[w]) THEN "begin" ELSE "stmt"
FirstQuery(w) ==
  IF UsesTransaction(op[w]) THEN Query(w, "begin", BeginText)
  ELSE Query(w, "stmt", StatementText(op[w], arg[w]))
FirstIssued(w) == IF UsesTransaction(op[w]) THEN "BEGIN" ELSE "STMT"

\* Variant: a pool whose release() only marks the connection idle.
HandOffNone(ws, ending) == 0

\* client.release() on a pool that is not ending: the connection goes to the first
\* pending pool.connect(), if there is one (0: to the idle list); a pool that is
\* ending closes the connection and serves no one.
HandOff(ws, ending) == IF ~ending /\ ws # <<>> THEN Head(ws) ELSE 0

\* executeDbQuery after queryFn(client) has ended with `outcome` on connection c:
\* catch (log, rethrow), finally release, then the handler's catch and the response.
\* q1 and iss are the queue of c and the queries of r after what r sent last.  The
\* request the connection is handed to goes on to its first client.query().
LeaveExecuteDbQuery(r, c, outcome, q1, iss) ==
  LET w == IF ReleaseCount(outcome) > 0 THEN HandOff(waiters, poolEnding) ELSE 0
      stmtNow == w # 0 /\ ~UsesTransaction(op[w])
  IN /\ leased' = [leased EXCEPT ![c] = IF ReleaseCount(outcome) > 0 THEN w ELSE @]
     /\ releases' = [releases EXCEPT ![r] = @ + ReleaseCount(outcome)]
     /\ waiters' = IF w # 0 THEN Tail(waiters) ELSE waiters
     /\ conn' = IF w # 0 THEN [conn EXCEPT ![w] = c] ELSE conn
     /\ connq' = [connq EXCEPT ![c] = IF w # 0 THEN Append(q1, FirstQuery(w)) ELSE q1]
     /\ issued' = [x \in Requests |->
                     IF x = r THEN iss
                     ELSE IF x = w THEN Append(issued[x], FirstIssued(w))
                     ELSE issued[x]]
     /\ resp' = [resp EXCEPT ![r] = outcome]
     /\ content' = [content EXCEPT ![r] = Content(op[r], arg[r], outcome)]
     /\ pc' = [x \in Requests |->
                 IF x = r THEN "done" ELSE IF x = w THEN FirstKind(w) ELSE pc[x]]
     /\ timerArmed' = [x \in Requests |->
                         IF x = r THEN FALSE ELSE IF x = w /\ stmtNow THEN TRUE
                         ELSE timerArmed[x]]
     /\ timerLeft' = [x \in Requests |->
                        IF x = r THEN 0 ELSE IF x = w /\ stmtNow THEN API_TIMEOUT_MS
                        ELSE timerLeft[x]]
     /\ waitLeft' = [x \in Requests |-> IF x = r \/ x = w THEN 0 ELSE waitLeft[x]]

\* The statement of r has ended with `outcome` (result, rejection or timeout); q0 is
\* the queue of connection c at that moment.  postgres_query sends ROLLBACK without
\* awaiting it, then executeDbQuery releases the connection.
LeaveStatement(r, c, outcome, q0) ==
  IF UsesTransaction(op[r]) /\ RollbackSent(outcome)
  THEN LeaveExecuteDbQuery(r, c, outcome, Append(q0, Query(r, "rollback", RollbackText)),
                           Append(issued[r], "ROLLBACK"))
  ELSE LeaveExecuteDbQuery(r, c, outcome, q0, issued[r])

\* The handler sends its statement on c and arms the timeout (withTimeout).
SendStatement(r, c, q0) ==
  /\ connq' = [connq EXCEPT ![c] =
                 Append(q0, Query(r, "stmt", StatementText(op[r], arg[r])))]
  /\ issued' = [issued EXCEPT ![r] = Append(@, "STMT")]
  /\ pc' = [pc EXCEPT ![r] = "stmt"]
  /\ timerArmed' = [timerArmed EXCEPT ![r] = TRUE]
  /\ timerLeft' = [timerLeft EXCEPT ![r] = API_TIMEOUT_MS]
  /\ waitLeft' = [waitLeft EXCEPT ![r] = 0]

\* A tools/call request arrives: registry lookup, parameter validation, and the
\* handler up to its first await, the pool.connect() of executeDbQuery.  Requests
\* are numbered in the order in which they arrive.
Dispatch(r, o, a) ==
  /\ phase = "running" /\ sdpc # "closing"
  /\ pc[r] = "new"
  /\ \A x \in Requests : x < r => pc[x] # "new"
  /\ op' = [op EXCEPT ![r] = o]
  /\ arg' = [arg EXCEPT ![r] = a]
  /\ IF ~Registered(o)
     THEN /\ Respond(r, "UnknownOperation")
          /\ UNCHANGED <<connectCalls, waiters>>
     ELSE IF ~ValidParams(o, a)
     THEN /\ Respond(r, "Validation")
          /\ UNCHANGED <<connectCalls, waiters>>
     ELSE /\ connectCalls' = [connectCalls EXCEPT ![r] = @ + 1]
          /\ IF poolEnding
             THEN Respond(r, "Acquire") /\ UNCHANGED waiters
             ELSE /\ waiters' = Append(waiters, r)
                  /\ pc' = [pc EXCEPT ![r] = "acquiring"]
                  /\ waitLeft' = [waitLeft EXCEPT ![r] = PoolConnectTimeoutMs]
                  /\ UNCHANGED <<resp, content, timerArmed, timerLeft>>
  /\ UNCHANGED <<sessionVars, leased, poolEnding, dbVars, conn, releases, issued, elapsed>>
  /\ UNCHANGED <<bootVars, hbVars, histVars>>

\* Variant: a pool that hands out a connection whether or not it is leased.
FreeOrLeased(c) == TRUE

\* The pool hands out a connection that no caller holds.
Free(c) == leased[c] = 0

\* Variant: client.query("ROLLBACK") without the .catch().
RollbackRejectionUncaught == FALSE

\* postgres_query: client.query("ROLLBACK").catch(...) -- a rejected ROLLBACK is
\* caught and logged; uncaught it would be an unhandled rejection, which calls
\* shutdown().
RollbackRejectionCaught == TRUE

\* pool.connect() resolves for the first waiter with a free connection c; the
\* handler goes on to its first client.query().
PoolGrant(r, c) ==
  /\ Alive /\ ~poolEnding
  /\ pc[r] = "acquiring" /\ waiters # <<>> /\ Head(waiters) = r
  /\ Free(c)
  /\ leased' = [leased EXCEPT ![c] = r]
  /\ waiters' = Tail(waiters)
  /\ conn' = [conn EXCEPT ![r] = c]
  /\ IF UsesTransaction(op[r])
     THEN /\ connq' = [connq EXCEPT ![c] = Append(@, Query(r, "begin", BeginText))]
          /\ issued' = [issued EXCEPT ![r] = Append(@, "BEGIN")]
          /\ pc' = [pc EXCEPT ![r] = "begin"]
          /\ waitLeft' = [waitLeft EXCEPT ![r] = 0]
          /\ UNCHANGED <<timerArmed, timerLeft>>
     ELSE SendStatement(r, c, connq[c])
  /\ UNCHANGED <<sessionVars, poolEnding, txn, committed, op, arg, resp, content, connectCalls,
                 releases, elapsed>>
  /\ UNCHANGED <<bootVars, hbVars, histVars>>

\* pool.connect() rejects: no connection within connectionTimeoutMillis, or the
\* new connection could not be opened.
PoolConnectFail(r) ==
  /\ Alive
  /\ pc[r] = "acquiring"
  /\ waiters' = SelectSeq(waiters, LAMBDA x : x # r)
  /\ Respond(r, "Acquire")
  /\ UNCHANGED <<sessionVars, leased, poolEnding, dbVars, op, arg, conn, connectCalls,
                 releases, issued, elapsed>>
  /\ UNCHANGED <<bootVars, hbVars, histVars>>

\* The database answers the query at the head of connection c's queue; `fault` is a
\* rejection for a reason outside the model (syntax, permission, broken session).
DbReturn(c, fault) ==
  /\ Alive
  /\ connq[c] # <<>>
  /\ LET q == Head(connq[c])
         r == q.owner
         q0 == Tail(connq[c])
         res == ExecQuery(q.text, txn[c], committed)
         ok == res.ok /\ ~fault
         awaited == pc[r] = q.kind
     IN /\ txn' = [txn EXCEPT ![c] = IF fault THEN (IF @ = "ro" THEN "aborted" ELSE @)
                                     ELSE res.t]
        /\ committed' = IF fault THEN committed ELSE res.d
        /\ IF ~awaited
           THEN /\ connq' = [connq EXCEPT ![c] = q0]
                /\ UNCHANGED <<leased, waiters, reqVars, timerLeft, waitLeft>>
           ELSE IF q.kind = "begin"
           THEN IF ok
                THEN /\ SendStatement(r, c, q0)
                     /\ UNCHANGED <<leased, waiters, conn, resp, content, releases>>
                ELSE LeaveExecuteDbQuery(r, c, "Db", q0, issued[r])
           ELSE LeaveStatement(r, c, IF ok THEN "ok" ELSE "Db", q0)
        /\ IF q.kind = "rollback" /\ fault /\ ~RollbackRejectionCaught
           THEN /\ ShutdownCall
                /\ UNCHANGED <<phase, exitCode, isConnected, reconnectAttempts,
                               transportCloseCalls, exitCalls, reconnectTimers>>
           ELSE UNCHANGED <<sessionVars, poolEnding>>
  /\ UNCHANGED <<op, arg, connectCalls, elapsed>>
  /\ UNCHANGED <<bootVars, hbVars, histVars>>

\* The setTimeout of createTimeout fires while the statement is still awaited:
\* Promise.race rejects, the statement itself stays in flight on the connection.
TimeoutFire(r) ==
  /\ Alive
  /\ pc[r] = "stmt" /\ timerArmed[r]
  /\ LeaveStatement(r, conn[r], "Timeout", connq[conn[r]])
  /\ UNCHANGED <<sessionVars, poolEnding, txn, committed, op, arg, connectCalls, elapsed>>
  /\ UNCHANGED <<bootVars, hbVars, histVars>>

\* ------------------------------------------------------- pool 'error' event
\* Variant: a pool without an 'error' listener.
NoPoolErrorListener == FALSE

\* pool.on('error', (err) => handleError(err, ...)): the event has a listener, which
\* writes to the log.
PoolErrorListener == TRUE

\* An idle connection c breaks (backend restart, network): the pool drops it and
\* emits 'error'.  With the listener the event is logged; an 'error' event without
\* a listener is thrown by the emitter and reaches the uncaughtException handler,
\* which calls shutdown().
PoolIdleError(c) ==
  /\ Alive /\ verified
  /\ Free(c) /\ connq[c] = <<>>
  /\ poolErrors < MaxPoolErrors
  /\ poolErrors' = poolErrors + 1
  /\ txn' = [txn EXCEPT ![c] = "none"]
  /\ IF PoolErrorListener
     THEN UNCHANGED <<isShuttingDown, sdpc, shutdownCalls, poolEndCalls, poolEnding,
                      lastCaller>>
     ELSE ShutdownCall /\ lastCaller' = "process"
  /\ UNCHANGED <<phase, exitCode, isConnected, reconnectAttempts, transportCloseCalls,
                 exitCalls, reconnectTimers>>
  /\ UNCHANGED <<leased, waiters, connq, committed, reqVars, clockVars>>
  /\ UNCHANGED <<bootVars, hbVars, failedSince, sdFailed>>

\* ---------------------------------------------------------------- signals
\* SIGINT, SIGTERM, uncaughtException, unhandledRejection: each calls shutdown().
Triggers == {"SIGINT", "SIGTERM", "uncaughtException", "unhandledRejection"}

\* Variant: the four handlers registered at the end of startServer().
ListeningOnceRunning == phase = "running"

\* process.on(...) at module level: the handlers are registered once the module
\* body has run, and stay registered for the life of the process.
Listening == phase \notin {"loading", "exited"}

Trigger(k) ==
  /\ Listening
  /\ ShutdownCall
  /\ lastCaller' = "process"
  /\ UNCHANGED <<phase, exitCode, isConnected, reconnectAttempts, transportCloseCalls,
                 exitCalls, reconnectTimers>>
  /\ UNCHANGED <<leased, waiters, dbVars, reqVars, clockVars>>
  /\ UNCHANGED <<bootVars, hbVars, failedSince, poolErrors, sdFailed>>

\* Variant: shutdown() without the try/catch around pool.end().
AfterPoolEndUncaught(ok) == IF ok THEN "closing" ELSE "rejected"

\* shutdown(): try { await pool.end() } catch { handleError } -- whether pool.end()
\* resolved or threw, shutdown() goes on to transport.close().
AfterPoolEnd(ok) == "closing"

\* shutdown(): pool.end() has settled (it settles once no connection is leased),
\* resolved (ok) or rejected; transport.close() is called.  Without the catch a
\* rejection would end shutdown() there, with the guard flag set for good.
PoolDrained(ok) ==
  /\ Alive
  /\ sdpc = "draining"
  /\ \A c \in Conns : leased[c] = 0
  /\ sdFailed' = IF ok THEN sdFailed ELSE sdFailed \cup {"pool.end"}
  /\ IF AfterPoolEnd(ok) = "closing"
     THEN sdpc' = "closing" /\ transportCloseCalls' = transportCloseCalls + 1
     ELSE sdpc' = "rejected" /\ UNCHANGED transportCloseCalls
  /\ UNCHANGED <<phase, exitCode, isConnected, reconnectAttempts, isShuttingDown,
                 shutdownCalls, poolEndCalls, exitCalls, reconnectTimers>>
  /\ UNCHANGED <<poolVars, dbVars, reqVars, clockVars>>
  /\ UNCHANGED <<bootVars, hbVars, failedSince, lastCaller, poolErrors>>

\* shutdown(): transport.close() has settled, resolved (ok) or rejected and caught;
\* process.exit(0).
TransportClosed(ok) ==
  /\ Alive
  /\ sdpc = "closing"
  /\ sdFailed' = IF ok THEN sdFailed ELSE sdFailed \cup {"transport.close"}
  /\ ProcessExit(0)
  /\ UNCHANGED <<isConnected, reconnectAttempts, isShuttingDown, sdpc, shutdownCalls,
                 poolEndCalls, transportCloseCalls, reconnectTimers>>
  /\ UNCHANGED <<poolVars, dbVars, reqVars, clockVars>>
  /\ UNCHANGED <<bootVars, hbVars, failedSince, lastCaller, poolErrors>>

\* -------------------------------------------------------------- reconnect
\* Variant: a comparison that lets one more attempt through.
UpToMaxAttempts == reconnectAttempts <= MAX_RECONNECT_ATTEMPTS

\* if (connectionState.reconnectAttempts < MAX_RECONNECT_ATTEMPTS)
BelowMaxAttempts == reconnectAttempts < MAX_RECONNECT_ATTEMPTS

\* Variant: a transport.onerror that marks the session disconnected.
DisconnectedAfterError == FALSE

\* transport.onerror does not write connectionState.isConnected: the flag is what
\* it was.
ConnectedAfterError == isConnected

\* The body of transport.onerror: below the maximum it counts the error and arms
\* one timer, otherwise it calls shutdown().
OnError ==
  /\ IF BelowMaxAttempts
     THEN /\ reconnectTimers < MaxTimers
          /\ reconnectAttempts' = reconnectAttempts + 1
          /\ reconnectTimers' = reconnectTimers + 1
          /\ UNCHANGED <<isShuttingDown, sdpc, shutdownCalls, poolEndCalls, poolEnding,
                         lastCaller>>
     ELSE /\ ShutdownCall
          /\ lastCaller' = "recovery"
          /\ UNCHANGED <<reconnectAttempts, reconnectTimers>>
  /\ isConnected' = ConnectedAfterError
  /\ UNCHANGED <<phase, exitCode, transportCloseCalls, exitCalls>>
  /\ UNCHANGED <<leased, waiters, dbVars, reqVars, clockVars>>
  /\ UNCHANGED <<bootVars, failedSince, poolErrors, sdFailed>>

\* The transport reports an error: transport.onerror runs.
TransportError ==
  /\ phase = "running" /\ sdpc # "closing"
  /\ OnError
  /\ UNCHANGED hbVars

\* Variant: a reconnect callback that leaves the counter as it is.
AttemptsKept == reconnectAttempts

\* The reconnect callback after server.connect(transport) resolved:
\* connectionState.reconnectAttempts = 0
AttemptsAfterSuccess == 0

\* The setTimeout callback of transport.onerror: await server.connect(transport)
ReconnectTimer(ok) ==
  /\ Alive
  /\ reconnectTimers > 0
  /\ reconnectTimers' = reconnectTimers - 1
  /\ IF ok
     THEN /\ isConnected' = TRUE
          /\ reconnectAttempts' = AttemptsAfterSuccess
          /\ failedSince' = 0
          /\ UNCHANGED <<isShuttingDown, sdpc, shutdownCalls, poolEndCalls, poolEnding,
                         lastCaller>>
     ELSE /\ failedSince' = failedSince + 1
          /\ IF reconnectAttempts >= MAX_RECONNECT_ATTEMPTS
             THEN ShutdownCall /\ lastCaller' = "recovery"
             ELSE UNCHANGED <<isShuttingDown, sdpc, shutdownCalls, poolEndCalls, poolEnding,
                              lastCaller>>
          /\ UNCHANGED <<isConnected, reconnectAttempts>>
  /\ UNCHANGED <<phase, exitCode, transportCloseCalls, exitCalls>>
  /\ UNCHANGED <<leased, waiters, dbVars, reqVars, clockVars>>
  /\ UNCHANGED <<bootVars, hbVars, poolErrors, sdFailed>>

\* ------------------------------------------------------------------ clock
ElapsedCap == API_TIMEOUT_MS + TickMs
Min(a, b) == IF a < b THEN a ELSE b
Max(a, b) == IF a > b THEN a ELSE b

\* TickMs pass.  A timer that is due runs before the clock moves on.
Tick ==
  /\ phase = "running"
  /\ \E r \in Requests : InFlight(r) /\ elapsed[r] < ElapsedCap
  /\ \A r \in Requests : pc[r] = "stmt" => timerLeft[r] > 0
  /\ \A r \in Requests : pc[r] = "acquiring" => waitLeft[r] > 0
  /\ elapsed' = [r \in Requests |->
                   IF InFlight(r) THEN Min(elapsed[r] + TickMs, ElapsedCap) ELSE elapsed[r]]
  /\ timerLeft' = [r \in Requests |->
                   IF pc[r] = "stmt" THEN Max(timerLeft[r] - TickMs, 0) ELSE timerLeft[r]]
  /\ waitLeft' = [r \in Requests |->
                   IF pc[r] = "acquiring" THEN Max(waitLeft[r] - TickMs, 0) ELSE waitLeft[r]]
  /\ UNCHANGED <<sessionVars, poolVars, dbVars, reqVars>>
  /\ UNCHANGED <<bootVars, hbVars, histVars>>

\* TickMs pass on the clock of the pool alone (connectionTimeoutMillis): the wait of
\* every pending pool.connect() gets shorter.
PoolTick ==
  /\ Alive
  /\ \E r \in Requests : pc[r] = "acquiring"
  /\ \A r \in Requests : pc[r] = "acquiring" => waitLeft[r] > 0
  /\ waitLeft' = [r \in Requests |->
                   IF pc[r] = "acquiring" THEN Max(waitLeft[r] - TickMs, 0) ELSE waitLeft[r]]
  /\ UNCHANGED <<elapsed, timerLeft>>
  /\ UNCHANGED <<sessionVars, poolVars, dbVars, reqVars, bootVars, hbVars, histVars>>

\* The timers of the timed specification fire when their delay has passed.
TimeoutExpire(r) == timerLeft[r] = 0 /\ TimeoutFire(r)
PoolWaitExpire(r) == waitLeft[r] = 0 /\ PoolConnectFail(r)

\* -------------------------------------------------------------- heartbeat
\* The methods of the messages the peer sends; "tools/list" stands for every
\* method transport.onmessage does not look at.
Methods == {"initialize", "initialized", "server/heartbeat", "tools/list"}

\* transport.onmessage: "initialize" marks the session connected and sets
\* lastHeartbeat, "initialized" marks it connected, "server/heartbeat" sets
\* lastHeartbeat.
OnMessage(m) ==
  /\ phase = "running" /\ sdpc # "closing"
  /\ lastMethod' = m
  /\ isConnected' = IF m \in {"initialize", "initialized"} THEN TRUE ELSE isConnected
  /\ hbGap' = IF m \in {"initialize", "server/heartbeat"} THEN 0 ELSE hbGap
  /\ hbReconnects' = IF m \in {"initialize", "server/heartbeat"} THEN 0 ELSE hbReconnects
  /\ UNCHANGED sinceCheck
  /\ UNCHANGED <<phase, exitCode, reconnectAttempts, isShuttingDown, sdpc, shutdownCalls,
                 poolEndCalls, transportCloseCalls, exitCalls, reconnectTimers>>
  /\ UNCHANGED <<poolVars, dbVars, reqVars, clockVars, bootVars, histVars>>

\* Variant: a heartbeat that is overdue as soon as twice the interval has passed.
HeartbeatTimedOutAtLimit == hbGap >= HEARTBEAT_INTERVAL_MS * 2

\* if (timeSinceLastHeartbeat > HEARTBEAT_INTERVAL_MS * 2)
HeartbeatTimedOut == hbGap > HEARTBEAT_INTERVAL_MS * 2

\* The setInterval callback heartbeatCheck, every HEARTBEAT_INTERVAL_MS: when the
\* session is connected and the heartbeat is overdue it calls transport.onerror.
HeartbeatCheck ==
  /\ Listening
  /\ sinceCheck = HEARTBEAT_INTERVAL_MS
  /\ sinceCheck' = 0
  /\ IF isConnected /\ HeartbeatTimedOut
     THEN /\ OnError
          /\ hbReconnects' = IF BelowMaxAttempts
                             THEN Min(hbReconnects + 1, MaxHbReconnects)
                             ELSE hbReconnects
          /\ UNCHANGED <<hbGap, lastMethod>>
     ELSE /\ UNCHANGED <<hbGap, lastMethod, hbReconnects>>
          /\ UNCHANGED <<sessionVars, poolVars, dbVars, reqVars, clockVars, bootVars,
                         histVars>>

\* Date.now() - lastHeartbeat is only compared with 2 * HEARTBEAT_INTERVAL_MS.
HbGapCap == HEARTBEAT_INTERVAL_MS * 2 + TickMs

\* TickMs pass on the clock of the heartbeat; a due heartbeatCheck runs before the
\* clock moves on.
HbTick ==
  /\ Listening
  /\ sinceCheck < HEARTBEAT_INTERVAL_MS
  /\ sinceCheck' = sinceCheck + TickMs
  /\ hbGap' = Min(hbGap + TickMs, HbGapCap)
  /\ UNCHANGED <<lastMethod, hbReconnects>>
  /\ UNCHANGED <<sessionVars, poolVars, dbVars, reqVars, clockVars, bootVars, histVars>>

\* --------------------------------------------------------- specifications
Startup == \E ok \in BOOLEAN : StartupVerify(ok) \/ StartupAttach(ok)
\* The steps of a running shutdown().  Whether pool.end() or transport.close() threw
\* changes nothing of what shutdown() does next (only sdFailed records it), so the
\* rejections are explored in the specification of the whole process lifetime
\* (ConfigSpec) and the other specifications take the steps that succeed.
ShutdownSteps(outcomes) == \E ok \in outcomes : PoolDrained(ok) \/ TransportClosed(ok)
Shutdown == ShutdownSteps({TRUE})

\* The serving core: requests, pool and database, timers firing at any moment.
Next ==
  \/ Startup
  \/ \E r \in Requests : \E o \in OpNames : \E a \in ArgsOf(o) : Dispatch(r, o, a)
  \/ \E r \in Requests : \E c \in Conns : PoolGrant(r, c)
  \/ \E r \in Requests : PoolConnectFail(r)
  \/ \E c \in Conns : \E fault \in BOOLEAN : DbReturn(c, fault)
  \/ \E r \in Requests : TimeoutFire(r)

Spec == Init /\ [][Next]_vars

\* The whole process: the serving core with signals, transport errors, reconnection
\* and the shutdown sequence.
LifeInit == InitWith(1..LifeRequests)
\* The call the peer makes in the lifecycle specification.
LifeCalls == {<<"postgres_query", [t |-> "string", v |-> "SELECT"]>>}
LifeNext ==
  \/ Startup
  \/ \E r \in Requests : \E call \in LifeCalls : Dispatch(r, call[1], call[2])
  \/ \E r \in Requests : \E c \in Conns : PoolGrant(r, c)
  \/ \E r \in Requests : PoolConnectFail(r)
  \/ \E c \in Conns : \E fault \in BOOLEAN : DbReturn(c, fault)
  \/ \E r \in Requests : TimeoutFire(r)
  \/ \E k \in Triggers : Trigger(k)
  \/ TransportError
  \/ \E ok \in BOOLEAN : ReconnectTimer(ok)
  \/ Shutdown

LifeSpec == LifeInit /\ [][LifeNext]_vars

\* The serving core with a clock: timers fire when due.
TimedInit == InitWith(1..TimedRequests)
TimedNext ==
  \/ Startup
  \/ \E r \in Requests : \E o \in OpNames : \E a \in ArgsOf(o) : Dispatch(r, o, a)
  \/ \E r \in Requests : \E c \in Conns : PoolGrant(r, c)
  \/ \E r \in Requests : PoolWaitExpire(r)
  \/ \E c \in Conns : \E fault \in BOOLEAN : DbReturn(c, fault)
  \/ \E r \in Requests : TimeoutExpire(r)
  \/ Tick

TimedSpec == TimedInit /\ [][TimedNext]_vars

\* The serving core under the scheduling Node guarantees: a due timer callback runs
\* (the statement timeout, the pool's connection timeout) and startup goes on.  The
\* database is outside the process: nothing makes it answer.
LiveSpec ==
  /\ Init /\ [][Next]_vars
  /\ WF_vars(Startup)
  /\ \A r \in Requests : WF_vars(TimeoutFire(r))
  /\ \A r \in Requests : WF_vars(PoolConnectFail(r) \/ \E c \in Conns : PoolGrant(r, c))

\* The session without requests: startup, the messages of the peer, the heartbeat
\* clock, transport errors, reconnection, signals and the shutdown sequence.
SessionInit == InitWith({})
SessionNext ==
  \/ Startup
  \/ \E m \in Methods : OnMessage(m)
  \/ HeartbeatCheck
  \/ HbTick
  \/ TransportError
  \/ \E ok \in BOOLEAN : ReconnectTimer(ok)
  \/ \E k \in Triggers : Trigger(k)
  \/ Shutdown

SessionSpec == SessionInit /\ [][SessionNext]_vars

\* The process from its start, for every environment and argument list: the module
\* body, then the session without requests and without the heartbeat clock.
EnvValues == {"unset", "", "postgres://env"}
ArgValues == {<<>>, <<"postgres://arg">>, <<"postgres://arg", "postgres://second">>}
ConfigInit ==
  /\ phase = "loading"
  /\ envUrl \in EnvValues /\ argUrl \in ArgValues
  /\ databaseUrl = "" /\ poolConstructed = FALSE
  /\ Constructed({})
ConfigNext ==
  \/ LoadConfig
  \/ Startup
  \/ TransportError
  \/ \E ok \in BOOLEAN : ReconnectTimer(ok)
  \/ \E k \in Triggers : Trigger(k)
  \/ ShutdownSteps(BOOLEAN)

ConfigSpec == ConfigInit /\ [][ConfigNext]_vars

\* The serving core for postgres_describe_table alone, called with the name of each
\* table of the schema and with a name that is no table.
DescribedNames == {"departments", "employees", "projects", "employee_projects",
                   "no_such_table"}
DescribeInit == InitWith(Requests)
DescribeNext ==
  \/ Startup
  \/ \E r \in Requests : \E n \in DescribedNames :
       Dispatch(r, "postgres_describe_table", [t |-> "string", v |-> n])
  \/ \E r \in Requests : \E c \in Conns : PoolGrant(r, c)
  \/ \E r \in Requests : PoolConnectFail(r)
  \/ \E c \in Conns : \E fault \in BOOLEAN : DbReturn(c, fault)
  \/ \E r \in Requests : TimeoutFire(r)

DescribeSpec == DescribeInit /\ [][DescribeNext]_vars

\* The serving core with the 'error' events of the pool.
IdleInit == InitWith(1..LifeRequests)
IdleNext ==
  \/ Startup
  \/ \E r \in Requests : \E call \in LifeCalls : Dispatch(r, call[1], call[2])
  \/ \E r \in Requests : \E c \in Conns : PoolGrant(r, c)
  \/ \E r \in Requests : PoolConnectFail(r)
  \/ \E c \in Conns : \E fault \in BOOLEAN : DbReturn(c, fault)
  \/ \E r \in Requests : TimeoutFire(r)
  \/ \E c \in Conns : PoolIdleError(c)
  \/ \E k \in Triggers : Trigger(k)
  \/ Shutdown

IdleSpec == IdleInit /\ [][IdleNext]_vars

\* The pool under load: more requests than connections, the clock of the pool's
\* connection timeout, and shutdown started by a signal.
PoolCalls == {<<"postgres_query", [t |-> "string", v |-> "SELECT"]>>,
              <<"postgres_list_tables", NoArg>>}
PoolInit == InitWith(Requests)
PoolNext ==
  \/ Startup
  \/ \E r \in Requests : \E call \in PoolCalls : Dispatch(r, call[1], call[2])
  \/ \E r \in Requests : \E c \in Conns : PoolGrant(r, c)
  \/ \E r \in Requests : PoolWaitExpire(r)
  \/ PoolTick
  \/ \E c \in Conns : \E fault \in BOOLEAN : DbReturn(c, fault)
  \/ \E r \in Requests : TimeoutFire(r)
  \/ \E k \in Triggers : Trigger(k)
  \/ Shutdown

PoolSpec == PoolInit /\ [][PoolNext]_vars

\* The serving core called once per kind of success response: rows of a query, the
\* table names, the column records of a table and the message for a name that is
\* no table.
ContentCalls == {<<"postgres_query", [t |-> "string", v |-> "SELECT"]>>,
                 <<"postgres_list_tables", NoArg>>,
                 <<"postgres_describe_table", [t |-> "string", v |-> "projects"]>>,
                 <<"postgres_describe_table", [t |-> "string", v |-> "no_such_table"]>>}
ContentInit == InitWith(Requests)
ContentNext ==
  \/ Startup
  \/ \E r \in Requests : \E call \in ContentCalls : Dispatch(r, call[1], call[2])
  \/ \E r \in Requests : \E c \in Conns : PoolGrant(r, c)
  \/ \E r \in Requests : PoolConnectFail(r)
  \/ \E c \in Conns : \E fault \in BOOLEAN : DbReturn(c, fault)
  \/ \E r \in Requests : TimeoutFire(r)

ContentSpec == ContentInit /\ [][ContentNext]_vars

\* The recovery path under the scheduling Node guarantees: a timer that is due runs
\* (the reconnect timeout, the heartbeat interval), time passes, startup and a
\* started shutdown go on.  Transport errors and the messages of the peer come from
\* outside the process: nothing makes them happen.
RecoveryNext ==
  \/ Startup
  \/ \E m \in Methods : OnMessage(m)
  \/ HeartbeatCheck
  \/ HbTick
  \/ TransportError
  \/ \E ok \in BOOLEAN : ReconnectTimer(ok)
  \/ Shutdown

RecoverySpec ==
  /\ SessionInit /\ [][RecoveryNext]_vars
  /\ WF_vars(Startup)
  /\ WF_vars(HeartbeatCheck)
  /\ WF_vars(HbTick)
  /\ WF_vars(\E ok \in BOOLEAN : ReconnectTimer(ok))
  /\ WF_vars(Shutdown)

\* The serving core together with the session: a call of each operation is served
\* while the peer's "initialize" arrives, the heartbeat clock runs, the heartbeat
\* check schedules reattachments (which succeed) and a signal starts shutdown.
FrameCalls == {<<"postgres_query", [t |-> "string", v |-> "SELECT"]>>,
               <<"postgres_list_tables", NoArg>>,
               <<"postgres_describe_table", [t |-> "string", v |-> "employees"]>>}
FrameMethods == {"initialize"}
\* The peer sends one request, the first.
FrameSent == {1}
FrameInit == InitWith(FrameSent)
FrameNext ==
  \/ Startup
  \/ \E r \in Requests : \E call \in FrameCalls : Dispatch(r, call[1], call[2])
  \/ \E r \in Requests : \E c \in Conns : PoolGrant(r, c)
  \/ \E r \in Requests : PoolConnectFail(r)
  \/ \E c \in Conns : \E fault \in BOOLEAN : DbReturn(c, fault)
  \/ \E r \in Requests : TimeoutFire(r)
  \/ \E m \in FrameMethods : OnMessage(m)
  \/ HeartbeatCheck
  \/ HbTick
  \/ ReconnectTimer(TRUE)
  \/ \E k \in Triggers : Trigger(k)
  \/ Shutdown

FrameSpec == FrameInit /\ [][FrameNext]_vars

\* The whole process under the scheduling Node guarantees: timers that are due run
\* (statement timeout, pool connection timeout, reconnect delay), startup and a
\* started shutdown go on.  The database, the signals and the transport are outside
\* the process: nothing makes them act.
LifeLiveSpec ==
  /\ LifeInit /\ [][LifeNext]_vars
  /\ WF_vars(Startup)
  /\ \A r \in Requests : WF_vars(TimeoutFire(r))
  /\ \A r \in Requests : WF_vars(PoolConnectFail(r) \/ \E c \in Conns : PoolGrant(r, c))
  /\ WF_vars(\E ok \in BOOLEAN : ReconnectTimer(ok))
  /\ WF_vars(Shutdown)

\* ----------------------------------------------------------------- claims
Holds(r) == pc[r] \in {"begin", "stmt"}
Received(r) == pc[r] \notin {"unsent", "new"}
\* The statement of r is still queued or running on connection c.
StatementPending(r, c) ==
  \E i \in 1..Len(connq[c]) : connq[c][i].owner = r /\ connq[c][i].kind = "stmt"

\* C1: every successful acquire of a handler is followed by exactly one release of
\* that connection on every exit path (result, database error, timeout): no request
\* releases more than once, a finished request that got a connection has released
\* it exactly once, and when no request is in flight no connection is leased.
C1_ReleaseExactlyOnce ==
  /\ \A r \in Requests : releases[r] <= 1
  /\ \A r \in Requests : releases[r] = 1 => conn[r] # 0
  /\ \A r \in Requests : pc[r] = "done" /\ conn[r] # 0 => releases[r] = 1
  /\ (\A r \in Requests : ~InFlight(r)) => \A c \in Conns : leased[c] = 0

\* C1 witness: one request ended by a timeout and another by a database error, each
\* having released its connection once.
C1_Witness ==
  \E r1, r2 \in Requests :
    /\ resp[r1] = "Timeout" /\ releases[r1] = 1
    /\ resp[r2] = "Db" /\ releases[r2] = 1 /\ "STMT" \in {issued[r2][i] : i \in 1..Len(issued[r2])}

\* C2 (as claimed): after a statement timeout the connection is not back in the pool
\* while the timed-out statement is still pending on it.
C2_ReleasedOnlyAfterCallReturns ==
  \A r \in Requests :
    resp[r] = "Timeout" /\ StatementPending(r, conn[r]) => leased[conn[r]] = r

\* C3: no connection is held by two callers at once, and a leased connection is
\* leased to a handler that has not completed.
C3_ExclusiveAndNotLeaked ==
  /\ \A r1, r2 \in Requests : r1 # r2 /\ Holds(r1) /\ Holds(r2) => conn[r1] # conn[r2]
  /\ \A r \in Requests : Holds(r) => leased[conn[r]] = r
  /\ \A c \in Conns : leased[c] # 0 => Holds(leased[c]) /\ conn[leased[c]] = c

\* C3 witness: a handler has timed out and another request, in flight, now holds the
\* connection the first one used.
C3_Witness ==
  \E r1, r2 \in Requests :
    /\ r1 # r2 /\ resp[r1] = "Timeout"
    /\ Holds(r2) /\ conn[r2] = conn[r1] /\ leased[conn[r2]] = r2

\* C4 (as claimed): postgres_query sends BEGIN, the statement and ROLLBACK, in that
\* order, whenever the statement was sent, and whenever no call is in progress the
\* committed data is what it was at the start.
C4_RollbackLeavesDataUnchanged ==
  /\ \A r \in Requests :
       pc[r] = "done" /\ op[r] = "postgres_query" /\ Len(issued[r]) > 1
         => issued[r] = <<"BEGIN", "STMT", "ROLLBACK">>
  /\ (\A r \in Requests : ~InFlight(r)) => committed = 0

\* C5: however many times shutdown is triggered, the pool is ended at most once, the
\* transport closed at most once and the process exits at most once, one after the
\* other; a process that exited with code 0 did each exactly once.
C5_ShutdownOnce ==
  /\ poolEndCalls <= 1 /\ transportCloseCalls <= 1 /\ exitCalls <= 1
  /\ transportCloseCalls <= poolEndCalls
  /\ isShuttingDown <=> poolEndCalls = 1
  /\ exitCode = 0 => poolEndCalls = 1 /\ transportCloseCalls = 1 /\ exitCalls = 1

\* C5 witness: shutdown() was called more than once, after the reconnect attempts
\* were used up, and the process has exited with code 0.
C5_Witness ==
  /\ shutdownCalls >= 2 /\ reconnectAttempts = MAX_RECONNECT_ATTEMPTS
  /\ exitCode = 0 /\ exitCalls = 1

\* C6 (as claimed): every request the dispatcher has received eventually has a
\* response.
C6_EveryRequestAnswered ==
  \A r \in Requests : [](Received(r) => <>(resp[r] # "none"))

\* C7 (as claimed): once more than the timeout (30 s) has passed since the handler
\* of a request started, the request has its response.
C7_TimeoutCoversWholeHandler ==
  \A r \in Requests : elapsed[r] > API_TIMEOUT_MS => resp[r] # "none"

\* C8: a request that names an operation outside the registry is answered with a
\* failure in the step that receives it, and that step leaves the pool as it was:
\* no pool.connect() call, no waiter, no lease, no statement; the request never
\* has a connect call or a connection afterwards.
C8_UnknownOperationNoAcquire ==
  [][\A r \in Requests :
       /\ (pc[r] = "new" /\ pc'[r] # "new" /\ op'[r] \notin Registry)
            => /\ pc'[r] = "done" /\ resp'[r] \notin {"none", "ok"}
               /\ connectCalls' = connectCalls
               /\ UNCHANGED <<poolVars, dbVars>>
       /\ (pc'[r] \notin {"unsent", "new"} /\ op'[r] \notin Registry)
            => connectCalls'[r] = 0 /\ conn'[r] = 0 /\ issued'[r] = <<>>]_vars

\* C8 witness: a request for an unregistered name has its failure response and made
\* no connect call, while another request did call the pool.
C8_Witness ==
  \E r1, r2 \in Requests :
    /\ op[r1] = "postgres_drop_table" /\ resp[r1] = "UnknownOperation"
    /\ connectCalls[r1] = 0 /\ connectCalls[r2] = 1

\* C9: a postgres_query or postgres_describe_table request whose parameter is not a
\* string has a failure response, no pool.connect() call, no connection and no
\* statement sent.
C9_InvalidParamsNoDatabase ==
  \A r \in Requests :
    /\ Received(r)
    /\ op[r] \in {"postgres_query", "postgres_describe_table"}
    /\ arg[r].t # "string"
    => /\ pc[r] = "done" /\ resp[r] \notin {"none", "ok"}
       /\ connectCalls[r] = 0 /\ conn[r] = 0 /\ issued[r] = <<>>

\* C9 witness: a postgres_query without sql and a postgres_describe_table with a
\* number as tableName have both been refused.
C9_Witness ==
  \E r1, r2 \in Requests :
    /\ op[r1] = "postgres_query" /\ arg[r1].t = "absent" /\ resp[r1] = "Validation"
    /\ op[r2] = "postgres_describe_table" /\ arg[r2].t = "number"
    /\ resp[r2] = "Validation"

C11_StartupOrderedFailFast ==
  /\ attached => verified
  /\ phase \in {"attaching", "running"} => attached /\ verified
  /\ startupFailed = "verify" => phase = "exited" /\ exitCode = 1 /\ ~attached
  /\ startupFailed = "attach" => phase = "exited" /\ exitCode = 1 /\ verified
  /\ ~verified /\ phase = "exited" /\ exitCode = 1 => startupFailed = "verify"

\* The connection test failed while a signal had already started shutdown().
C11_Witness ==
  startupFailed = "verify" /\ isShuttingDown /\ exitCode = 1

\* ------------------------------------------------------------------- C12
\* C12: recovery is a bounded retry.  A reattachment is scheduled only by an error
\* (or heartbeat timeout) that finds the counter below MAX_RECONNECT_ATTEMPTS, which
\* increments the counter and arms exactly one timer; and the recovery path calls
\* shutdown() only when MAX_RECONNECT_ATTEMPTS reattachments have failed since the
\* last one that succeeded.
C12_BoundedRetry ==
  [][/\ reconnectTimers' > reconnectTimers \/ reconnectAttempts' > reconnectAttempts
        => /\ reconnectAttempts < MAX_RECONNECT_ATTEMPTS
           /\ reconnectAttempts' = reconnectAttempts + 1
           /\ reconnectTimers' = reconnectTimers + 1
     /\ shutdownCalls' > shutdownCalls /\ lastCaller' = "recovery"
        => failedSince' >= MAX_RECONNECT_ATTEMPTS]_vars

\* ------------------------------------------------------------------- C13
\* C13: a reattachment that succeeds leaves the reconnect counter at zero, however
\* many attempts failed before or are still pending; the counter then changes only
\* when an error increments it (arming a timer) or another success resets it.
C13_CounterZeroAfterSuccess ==
  [][/\ reconnectTimers' < reconnectTimers /\ failedSince' = 0
        => reconnectAttempts' = 0
     /\ reconnectAttempts' # reconnectAttempts
        => \/ /\ reconnectAttempts' = reconnectAttempts + 1
              /\ reconnectTimers' = reconnectTimers + 1
           \/ /\ reconnectAttempts' = 0
              /\ reconnectTimers' < reconnectTimers /\ failedSince' = 0]_vars

\* A reattachment has just succeeded (no message has marked the session connected)
\* while another attempt is still pending: the counter is zero.
C13_Witness ==
  /\ isConnected /\ lastMethod = "" /\ failedSince = 0
  /\ reconnectAttempts = 0 /\ reconnectTimers > 0

\* ------------------------------------------------------------------- C14
\* C14: one period of silence of the peer (no message that sets lastHeartbeat)
\* leads to at most one reattachment scheduled by the heartbeat check.
C14_OneReconnectPerSilence == hbReconnects <= 1

\* ------------------------------------------------------------------- C15
\* C15: an "initialize" and an "initialized" message each mark the session
\* connected and reset the heartbeat clock; a "server/heartbeat" message resets the
\* heartbeat clock.
C15_MessagesUpdateSession ==
  [][/\ lastMethod' # lastMethod /\ lastMethod' \in {"initialize", "initialized"}
        => isConnected' /\ hbGap' = 0
     /\ lastMethod' # lastMethod /\ lastMethod' = "server/heartbeat"
        => hbGap' = 0]_vars

\* ------------------------------------------------------------------- C16
\* C16: in every state of the living process in which the module body has run,
\* startup and pending reconnection included, each of SIGINT, SIGTERM,
\* uncaughtException and unhandledRejection is handled, and handling it calls
\* shutdown(): the shutdown sequence is running afterwards, started by this call (the
\* pool begins to drain) unless it was running already.
C16_FatalEventsStartShutdown ==
  /\ [](phase \notin {"loading", "exited"} /\ shutdownCalls < MaxShutdownCalls
          => \A k \in Triggers : ENABLED Trigger(k))
  /\ [][shutdownCalls' > shutdownCalls /\ lastCaller' = "process"
          => /\ isShuttingDown' /\ poolEnding'
             /\ ~isShuttingDown => sdpc' = "draining" /\ poolEndCalls' = poolEndCalls + 1]_vars

\* A signal during startup, before the connection test has settled, has started the
\* shutdown sequence.
C16_Witness ==
  /\ phase = "verifying" /\ lastCaller = "process"
  /\ isShuttingDown /\ sdpc = "draining" /\ poolEndCalls = 1

\* ------------------------------------------------------------------- C17
\* C17: a postgres_describe_table whose query returned no rows is answered with a
\* success response holding exactly one text block, the "not found or has no
\* columns" message for that table name; one whose query returned rows is answered
\* with exactly one text block, the serialized column records.
C17_DescribeTableContent ==
  \A r \in Requests :
    op[r] = "postgres_describe_table" /\ resp[r] = "ok"
    => /\ Len(content[r]) = 1
       /\ content[r][1].type = "text"
       /\ content[r][1].text =
            IF ColumnRows(arg[r].v) = <<>> THEN NotFoundText(arg[r].v)
            ELSE Json(ColumnRows(arg[r].v))

\* A request that described a name that is no table has its answer.
C17_Witness ==
  \E r \in Requests :
    /\ op[r] = "postgres_describe_table" /\ arg[r].v = "no_such_table"
    /\ resp[r] = "ok" /\ content[r] = <<TextBlock(NotFoundText("no_such_table"))>>

\* ------------------------------------------------------------------- C18
\* C18, as stated: once the module body has run, the connection string is
\* DATABASE_URL whenever the variable is set, otherwise the first argument; with
\* neither, the process has exited with code 1, no pool constructed, no transport
\* attached.
C18_ConnectionStringSource ==
  phase # "loading" =>
    /\ envUrl # "unset" => poolConstructed /\ databaseUrl = envUrl
    /\ envUrl = "unset" /\ argUrl # <<>> => poolConstructed /\ databaseUrl = argUrl[1]
    /\ envUrl = "unset" /\ argUrl = <<>>
       => phase = "exited" /\ exitCode = 1 /\ ~poolConstructed /\ ~attached

\* C18, amended: the connection string is DATABASE_URL whenever the variable is set
\* to a non-empty value, otherwise (unset or empty) the first argument; with neither,
\* the process has exited with code 1, no pool constructed, no transport attached.
C18_NonEmptyConnectionStringSource ==
  phase # "loading" =>
    /\ envUrl \notin {"unset", ""} => poolConstructed /\ databaseUrl = envUrl
    /\ envUrl \in {"unset", ""} /\ argUrl # <<>>
       => poolConstructed /\ databaseUrl = argUrl[1]
    /\ envUrl \in {"unset", ""} /\ argUrl = <<>>
       => phase = "exited" /\ exitCode = 1 /\ ~poolConstructed /\ ~attached

\* DATABASE_URL is set and an argument is given as well: the server runs on the
\* connection string of the environment.
C18_Witness ==
  /\ envUrl = "postgres://env" /\ argUrl # <<>>
  /\ phase = "running" /\ databaseUrl = "postgres://env"

\* ------------------------------------------------------------------- C19
\* C19: an 'error' event of the pool for an idle connection is only logged.  The
\* step that handles it leaves the session state (connected flag, reconnect
\* counter, shutting-down flag, heartbeat clock) as it was, calls neither shutdown()
\* nor the recovery path, and leaves the process running with its pool open and
\* its requests, leases and waiting acquires untouched.
C19_PoolErrorOnlyLogged ==
  [][poolErrors' > poolErrors
       => /\ UNCHANGED <<isConnected, reconnectAttempts, isShuttingDown, hbGap>>
          /\ UNCHANGED <<shutdownCalls, poolEndCalls, reconnectTimers, sdpc>>
          /\ UNCHANGED <<phase, exitCode, poolEnding>>
          /\ UNCHANGED <<pc, resp, leased, waiters>>]_vars

\* After an 'error' event of the pool every connection is leased again and a
\* request is being served on one of them.
C19_Witness ==
  /\ poolErrors > 0 /\ phase = "running" /\ ~isShuttingDown
  /\ \A c \in Conns : leased[c] # 0
  /\ \E r \in Requests : pc[r] = "stmt" /\ leased[conn[r]] = r

\* ------------------------------------------------------------------- C20
\* What C20 says of every step but the hand-over on release: a connection gets a new
\* holder only when it is free or released in that step, and the new holder is the
\* first pending acquire, so an acquire that finds every connection leased waits;
\* a pending acquire fails only when its wait window (connectionTimeoutMillis) has run
\* out, and the clock does not pass the end of the window; no step gives a
\* connection to two requests.
PoolWaitsAndWindow ==
  /\ \A c \in Conns :
       leased'[c] # leased[c] /\ leased'[c] # 0
       => /\ waiters # <<>> /\ leased'[c] = Head(waiters) /\ waiters' = Tail(waiters)
          /\ pc[leased'[c]] = "acquiring"
          /\ leased[c] = 0 \/ releases'[leased[c]] = releases[leased[c]] + 1
  /\ \A r \in Requests :
       /\ pc[r] = "acquiring" /\ resp'[r] = "Acquire" => waitLeft[r] = 0
       /\ pc[r] = "acquiring" /\ waitLeft'[r] < waitLeft[r] /\ pc'[r] = "acquiring"
          => waitLeft[r] > 0 /\ waitLeft[r] <= PoolConnectTimeoutMs
  /\ Cardinality({r \in Requests : conn'[r] # conn[r]}) <= 1

SerializedResult(o, a) ==
  CASE o = "postgres_query" -> Json(ResultRows(o, a))
    [] o = "postgres_list_tables" ->
         Json(<<"departments", "employees", "projects", "employee_projects">>)
    [] o = "postgres_describe_table" /\ ColumnCount(a.v) = 0 -> NotFoundText(a.v)
    [] OTHER -> Json(ColumnRows(a.v))

\* C21: every success response of the three operations consists of exactly one
\* content block, of kind "text", whose payload is the serialized result.
C21_OneTextBlockPerSuccess ==
  \A r \in Requests :
    resp[r] = "ok" /\ op[r] \in Registry
    => /\ Len(content[r]) = 1
       /\ DOMAIN content[r][1] = {"type", "text"}
       /\ content[r][1].type = "text"
       /\ content[r][1].text = SerializedResult(op[r], arg[r])

\* Two requests have been answered with success, one with the table names and one
\* with the rows of a query.
C21_Witness ==
  \E r1, r2 \in Requests :
    /\ op[r1] = "postgres_list_tables" /\ resp[r1] = "ok" /\ Len(content[r1]) = 1
    /\ op[r2] = "postgres_query" /\ resp[r2] = "ok"
    /\ content[r2] = <<TextBlock(Json(<<[n |-> 1]>>))>>
\* ------------------------------------------------------------------- C22
\* C22 (as claimed): after a transport error or heartbeat timeout (the reconnect
\* counter is above zero) the session eventually reattaches successfully (the
\* counter is back at zero) or shutdown is reached.
C22_EventuallyReattachedOrShutdown ==
  reconnectAttempts > 0 ~> (reconnectAttempts = 0 \/ isShuttingDown)
\* ------------------------------------------------------------------- C23
\* C23: a run of the periodic heartbeat check invokes the recovery path of
\* transport.onerror (one more attempt counted and one timer armed, or shutdown()
\* called) exactly when the session is marked connected and the time since the last
\* heartbeat is strictly greater than twice the heartbeat interval; otherwise the
\* check changes nothing.
C23_HeartbeatCheckExactlyWhenOverdue ==
  [][sinceCheck = HEARTBEAT_INTERVAL_MS /\ sinceCheck' = 0
       => IF isConnected /\ hbGap > 2 * HEARTBEAT_INTERVAL_MS
          THEN \/ /\ reconnectAttempts' = reconnectAttempts + 1
                  /\ reconnectTimers' = reconnectTimers + 1
               \/ /\ shutdownCalls' = shutdownCalls + 1
                  /\ lastCaller' = "recovery"
          ELSE UNCHANGED <<sessionVars, poolVars, dbVars, reqVars, clockVars, bootVars,
                           hbGap, lastMethod, hbReconnects, histVars>>]_vars

\* The heartbeat check has just run on a connected session whose last heartbeat was
\* more than 10 s ago, and has scheduled the first reattachment.
C23_Witness ==
  /\ isConnected /\ sinceCheck = 0 /\ hbGap > 2 * HEARTBEAT_INTERVAL_MS
  /\ hbReconnects = 1 /\ reconnectAttempts = 1 /\ reconnectTimers = 1
\* ------------------------------------------------------------------- C24
\* C24: the shutdown sequence runs in the order drain pool, close transport, exit
\* with code 0.  transport.close() is called only when pool.end() has settled, and is
\* called also when pool.end() threw; the process exits with code 0 only when
\* transport.close() has settled, and does so also when it threw; while
\* transport.close() is pending the exit step can be taken.  Exit code 1 comes only
\* from a step of startup (no connection string, failed connection test, failed
\* attachment), never from a step of shutdown().
C24_ShutdownOrderAndExitCodes ==
  /\ [](/\ exitCode \in {-1, 0, 1}
        /\ exitCode = 1 => startupFailed # "none" \/ ~poolConstructed
        /\ exitCode = 0 => startupFailed = "none" /\ poolConstructed
        /\ sdpc = "closing" /\ phase # "exited"
           => \A ok \in BOOLEAN : ENABLED TransportClosed(ok))
  /\ [][/\ transportCloseCalls' # transportCloseCalls
           => /\ sdpc = "draining" /\ poolEndCalls = 1
              /\ transportCloseCalls' = transportCloseCalls + 1 /\ sdpc' = "closing"
        /\ "pool.end" \in sdFailed' \ sdFailed
           => transportCloseCalls' = transportCloseCalls + 1 /\ sdpc' = "closing"
        /\ exitCode' = 0 /\ exitCode # 0
           => sdpc = "closing" /\ poolEndCalls = 1 /\ transportCloseCalls = 1
        /\ "transport.close" \in sdFailed' \ sdFailed
           => exitCode' = 0 /\ phase' = "exited"
        /\ exitCode' = 1 /\ exitCode # 1
           => /\ phase \in {"loading", "verifying", "attaching"}
              /\ UNCHANGED <<sdpc, sdFailed, transportCloseCalls, poolEndCalls>>]_vars

\* shutdown() has run to its end although pool.end() and transport.close() both
\* threw: the transport was closed and the process has exited with code 0.
C24_Witness ==
  /\ sdFailed = {"pool.end", "transport.close"}
  /\ poolEndCalls = 1 /\ transportCloseCalls = 1 /\ exitCode = 0 /\ phase = "exited"
\* ------------------------------------------------------------------- C25
\* C25: the session record (connected flag, last-heartbeat time, reconnect counter,
\* shutting-down flag) is changed only by the session's own components.  A step that
\* executes part of an operation (it changes a request, the database, a lease or the
\* queue of pending acquires) leaves the four fields as they were; the connected
\* flag is set only by an "initialize" or "initialized" message or by a reconnect
\* timer, the last-heartbeat time only by an "initialize" or "server/heartbeat"
\* message, the counter only together with a reconnect timer armed or run, and the
\* shutting-down flag only by a call of shutdown().
C25_SessionRecordOwnedBySession ==
  [][/\ reqVars' # reqVars \/ dbVars' # dbVars \/ leased' # leased \/ waiters' # waiters
        => UNCHANGED <<isConnected, hbGap, reconnectAttempts, isShuttingDown>>
     /\ isConnected' # isConnected
        => \/ lastMethod' \in {"initialize", "initialized"}
           \/ reconnectTimers' = reconnectTimers - 1
     /\ hbGap' < hbGap
        => hbGap' = 0 /\ lastMethod' \in {"initialize", "server/heartbeat"}
     /\ reconnectAttempts' # reconnectAttempts
        => reconnectTimers' # reconnectTimers
     /\ isShuttingDown' # isShuttingDown
        => isShuttingDown' /\ shutdownCalls' = shutdownCalls + 1]_vars

\* A request has failed on the database while the session was connected, its
\* heartbeat overdue, a reattachment pending and shutdown draining the pool.
C25_Witness ==
  \E r \in Requests :
    /\ resp[r] = "Db" /\ releases[r] = 1
    /\ isConnected /\ hbGap > 2 * HEARTBEAT_INTERVAL_MS
    /\ reconnectAttempts = 1 /\ reconnectTimers = 1
    /\ isShuttingDown /\ sdpc = "draining"
\* ------------------------------------------------------------------- C26
\* C26 (as claimed): a connection that no handler holds has no query queued or
\* running and no open transaction, and every query queued or running on a leased
\* connection was sent by its present holder.
C26_NoWorkOfPreviousLessee ==
  \A c \in Conns :
    /\ leased[c] = 0 => connq[c] = <<>> /\ txn[c] = "none"
    /\ leased[c] # 0 => \A i \in 1..Len(connq[c]) : connq[c][i].owner = leased[c]
\* ------------------------------------------------------------------- C27
\* C27 (as claimed): once shutdown() has set the shutting-down flag the process
\* eventually exits.
C27_ShutdownEventuallyExits == isShuttingDown ~> phase = "exited"
\* ------------------------------------------------------------------- C28
\* C28 (as claimed): once the shutting-down flag is set, no step arms a reconnect
\* timer (neither a transport error nor the heartbeat check schedules a
\* reattachment), a reconnect timer that runs attempts no reattachment (it neither
\* succeeds, setting the connected flag and the counter, nor fails), and the
\* recovery path is not invoked to call shutdown() again.
C28_QuiescentWhileShuttingDown ==
  [][isShuttingDown
       => /\ reconnectTimers' <= reconnectTimers
          /\ reconnectTimers' < reconnectTimers
             => UNCHANGED <<isConnected, reconnectAttempts, failedSince>>
          /\ ~(shutdownCalls' > shutdownCalls /\ lastCaller' = "recovery")]_vars
\* ------------------------------------------------------------------- C29
\* C29: in every reachable state the reconnect counter is between 0 and
\* MAX_RECONNECT_ATTEMPTS inclusive, and no step moves it by more than one upwards.
C29_CounterWithinBounds ==
  /\ [](reconnectAttempts \in 0..MAX_RECONNECT_ATTEMPTS)
  /\ [][reconnectAttempts' <= reconnectAttempts + 1]_vars

\* The counter is at the maximum with a reconnect timer still pending, and a further
\* error has made the recovery path call shutdown().
C29_Witness ==
  /\ reconnectAttempts = MAX_RECONNECT_ATTEMPTS /\ reconnectTimers > 0
  /\ lastCaller = "recovery" /\ isShuttingDown
\* ------------------------------------------------------------------- C30
\* C30: the connected flag and the shutting-down flag are monotonic: no step sets
\* either back to false, a transport error or heartbeat timeout included.  So the
\* heartbeat check stays armed once the session was marked connected: every run of
\* the check that finds the heartbeat overdue invokes the recovery path (a timer
\* armed or shutdown() called).
C30_FlagsMonotonic ==
  [][/\ isConnected => isConnected'
     /\ isShuttingDown => isShuttingDown'
     /\ isConnected /\ sinceCheck = HEARTBEAT_INTERVAL_MS /\ sinceCheck' = 0
        /\ hbGap > 2 * HEARTBEAT_INTERVAL_MS
        => reconnectTimers' = reconnectTimers + 1 \/ shutdownCalls' = shutdownCalls + 1]_vars

\* A session marked connected by "initialize" is still marked connected after two
\* heartbeat timeouts and a failed reattachment, with shutdown under way.
C30_Witness ==
  /\ isConnected /\ lastMethod = "initialize"
  /\ hbReconnects >= 2 /\ failedSince >= 1 /\ isShuttingDown
====
